---- MODULE Spec2Model ----
(***************************************************************************)
(* Model of the BoR proof core: the deterministic step executor            *)
(* (bor/core.py: BoRStep, Proof, BoRRun) and the rich proof bundle builder *)
(* (bor/bundle.py: build_primary, build_bundle).                           *)
(*                                                                         *)
(* Python values are modelled as follows.  An optional value (None or x)   *)
(* is the sequence <<>> or <<x>>.  A configuration dict is a record.  A    *)
(* step function is a record [name, logic]: name is its __name__ and logic *)
(* selects what the body computes, so two functions may share a name and   *)
(* differ in behaviour.  SHA-256 is taken as collision-free: a digest is   *)
(* the tagged canonical payload it was computed from.                      *)
(***************************************************************************)
EXTENDS Integers, Sequences, FiniteSets, TLC

\* Longest chain of step records a run is driven to.
MaxSteps == 2

\* ---------------------------------------------------------------------
\* Inputs supplied by the caller
\* ---------------------------------------------------------------------

\* Step functions (state, config, version) -> state handed to add_step.
add == [name |-> "add", logic |-> "add"]
add_mutated == [name |-> "add", logic |-> "add_plus_one"]
square == [name |-> "square", logic |-> "square"]
boom == [name |-> "boom", logic |-> "raise"]
not_callable == [name |-> "", logic |-> "not_callable"]

PureFns == {add, add_mutated, square}
StepArgs == PureFns \cup {boom, not_callable}

\* (S0, C, V) triples a run is constructed with.
Inputs ==
    { [S0 |-> 7, C |-> [offset |-> 4], V |-> "v1.0"],
      [S0 |-> 1, C |-> [offset |-> 0], V |-> "v1.0"],
      [S0 |-> 1, C |-> [offset |-> 0], V |-> "v1.1"] }

\* Values env_fingerprint() may return (an opaque blob of the platform).
Envs == {"envA", "envB"}

\* ---------------------------------------------------------------------
\* Hashing
\* ---------------------------------------------------------------------

\* content_hash(obj) = SHA-256 hex digest of the canonical encoding of obj.
content_hash(obj) == <<"sha256", obj>>

\* ---------------------------------------------------------------------
\* Step functions
\* ---------------------------------------------------------------------

callable(fn) == fn.logic # "not_callable"

\* fn(x, C, V): the value returned, or raised = TRUE when the body raises.
Call(fn, x, C, V) ==
    CASE fn.logic = "add" -> [raised |-> FALSE, value |-> x + C.offset]
      [] fn.logic = "add_plus_one" -> [raised |-> FALSE, value |-> x + C.offset + 1]
      [] fn.logic = "square" -> [raised |-> FALSE, value |-> x * x]
      [] OTHER -> [raised |-> TRUE, value |-> x]

\* ---------------------------------------------------------------------
\* BoRStep
\* ---------------------------------------------------------------------

\* BoRStep.compute_fingerprint with the output state folded into the payload.
compute_fingerprint_with_output(fn_name, input_state, output_state, config, code_version) ==
    content_hash([fn |-> fn_name, input |-> input_state, output |-> output_state,
                  config |-> config, version |-> code_version])

compute_fingerprint(fn_name, input_state, output_state, config, code_version) ==
    content_hash([fn |-> fn_name, input |-> input_state,
                  config |-> config, version |-> code_version])

BoRStep(fn_name, input_state, output_state, config, code_version) ==
    [fn_name |-> fn_name, input_state |-> input_state, output_state |-> output_state,
     config |-> config, code_version |-> code_version,
     fingerprint |-> compute_fingerprint(fn_name, input_state, output_state,
                                         config, code_version)]

\* ---------------------------------------------------------------------
\* BoRRun
\* ---------------------------------------------------------------------

\* BoRRun.__init__
NewRun(in, env) ==
    [initial_state |-> in.S0, config |-> in.C, code_version |-> in.V, env |-> env,
     P0 |-> content_hash([S0 |-> in.S0, C |-> in.C, V |-> in.V, env |-> env]),
     steps |-> <<>>, final_state |-> <<>>, proof |-> <<>>]

\* add_step that threads the initial state into every step.
add_step_no_threading(r, fn) ==
    IF ~callable(fn) THEN [run |-> r, exc |-> "DeterminismError"]
    ELSE LET out == Call(fn, r.initial_state, r.config, r.code_version)
         IN IF out.raised THEN [run |-> r, exc |-> "DeterminismError"]
            ELSE [run |-> [r EXCEPT
                       !.steps = Append(@, BoRStep(fn.name, r.initial_state, out.value,
                                                   r.config, r.code_version)),
                       !.final_state = <<out.value>>],
                  exc |-> "none"]

\* add_step that records the output of a failing call before raising.
add_step_dirty_failure(r, fn) ==
    IF ~callable(fn) THEN [run |-> r, exc |-> "DeterminismError"]
    ELSE LET prev_state == IF r.steps = <<>> THEN r.initial_state ELSE r.final_state[1]
             out == Call(fn, prev_state, r.config, r.code_version)
         IN IF out.raised
            THEN [run |-> [r EXCEPT !.final_state = <<out.value + 1>>],
                  exc |-> "DeterminismError"]
            ELSE [run |-> [r EXCEPT
                       !.steps = Append(@, BoRStep(fn.name, prev_state, out.value,
                                                   r.config, r.code_version)),
                       !.final_state = <<out.value>>],
                  exc |-> "none"]

\* BoRRun.add_step: the run after the call and the exception raised, if any.
add_step(r, fn) ==
    IF ~callable(fn) THEN [run |-> r, exc |-> "DeterminismError"]
    ELSE LET prev_state == IF r.steps = <<>> THEN r.initial_state ELSE r.final_state[1]
             out == Call(fn, prev_state, r.config, r.code_version)
         IN IF out.raised THEN [run |-> r, exc |-> "DeterminismError"]
            ELSE [run |-> [r EXCEPT
                       !.steps = Append(@, BoRStep(fn.name, prev_state, out.value,
                                                   r.config, r.code_version)),
                       !.final_state = <<out.value>>],
                  exc |-> "none"]

\* BoRRun._stage_hashes
stage_hashes_of(r) == [i \in 1..Len(r.steps) |-> r.steps[i].fingerprint]

\* "P2|" + "|".join(stage_hashes): the tag and the fixed-width digests in order.
P2Concat(stage_hashes) == [tag |-> "P2", parts |-> stage_hashes]

\* The proof object built by finalize from the current records.
MakeProof(r, HMASTER) ==
    [meta |-> [S0 |-> r.initial_state, C |-> r.config, V |-> r.code_version,
               env |-> r.env, H0 |-> r.P0],
     steps |-> [i \in 1..Len(r.steps) |->
                  [i |-> i, fn |-> r.steps[i].fn_name, input |-> r.steps[i].input_state,
                   output |-> r.steps[i].output_state, config |-> r.steps[i].config,
                   version |-> r.steps[i].code_version,
                   fingerprint |-> r.steps[i].fingerprint]],
     stage_hashes |-> stage_hashes_of(r),
     master |-> HMASTER]

\* finalize that folds the initialization hash P0 into the master.
finalize_with_P0(r) ==
    [r EXCEPT !.proof =
        <<MakeProof(r, content_hash(P2Concat(<<r.P0>> \o stage_hashes_of(r))))>>]

\* finalize that joins the fingerprints last step first.
finalize_reversed(r) ==
    LET h == stage_hashes_of(r)
        reversed == [i \in 1..Len(h) |-> h[(Len(h) + 1) - i]]
    IN [r EXCEPT !.proof = <<MakeProof(r, content_hash(P2Concat(reversed)))>>]

\* finalize that numbers the step records from 0.
finalize_zero_based(r) ==
    LET proof == MakeProof(r, content_hash(P2Concat(stage_hashes_of(r))))
    IN [r EXCEPT !.proof =
          <<[proof EXCEPT !.steps = [i \in 1..Len(proof.steps) |->
                                       [proof.steps[i] EXCEPT !.i = i - 1]]]>>]

\* BoRRun.finalize: stores the proof on the run and returns it.
finalize(r) ==
    [r EXCEPT !.proof = <<MakeProof(r, content_hash(P2Concat(stage_hashes_of(r))))>>]

\* BoRRun.run_steps: add_step for each function, stopping at the first raise.
RECURSIVE run_steps(_, _)
run_steps(r, stage_fns) ==
    IF stage_fns = <<>> THEN [run |-> r, exc |-> "none"]
    ELSE LET res == add_step(r, Head(stage_fns))
         IN IF res.exc # "none" THEN res
            ELSE run_steps(res.run, Tail(stage_fns))

\* verify that compares the recomputed master with the initialization hash.
verify_against_P0(r) ==
    IF r.proof = <<>> THEN [run |-> r, exc |-> "DeterminismError"]
    ELSE LET recomputed == finalize(r)
         IN [run |-> recomputed,
             exc |-> IF recomputed.proof[1].master # r.P0
                     THEN "HashMismatchError" ELSE "none"]

\* BoRRun.verify: recomputes through finalize and compares the masters.
verify(r) ==
    IF r.proof = <<>> THEN [run |-> r, exc |-> "DeterminismError"]
    ELSE LET old_master == r.proof[1].master
             recomputed == finalize(r)
         IN [run |-> recomputed,
             exc |-> IF recomputed.proof[1].master # old_master
                     THEN "HashMismatchError" ELSE "none"]

\* BoRRun.to_primary_proof
to_primary_proof(r) ==
    IF r.proof = <<>> THEN [exc |-> "RuntimeError", value |-> <<>>]
    ELSE [exc |-> "none",
          value |-> <<[meta |-> r.proof[1].meta, steps |-> r.proof[1].steps,
                       stage_hashes |-> r.proof[1].stage_hashes,
                       master |-> r.proof[1].master]>>]

\* ---------------------------------------------------------------------
\* Rich proof bundle
\* ---------------------------------------------------------------------

\* build_primary that catches the failure of a stage and exports the proof
\* of the stages executed before it.
build_primary_partial(in, env, stages) ==
    to_primary_proof(finalize(run_steps(NewRun(in, env), stages).run))

\* build_primary: a fresh run, add_step per stage, finalize, export.
build_primary(in, env, stages) ==
    LET res == run_steps(NewRun(in, env), stages)
    IN IF res.exc # "none" THEN [exc |-> res.exc, value |-> <<>>]
       ELSE to_primary_proof(finalize(res.run))

\* Keys of the subproofs dict in insertion order.
SubproofNames == <<"DIP", "DP", "PEP", "PoPI", "CCP", "CMIP", "PP", "TRP">>

NameSet == {SubproofNames[i] : i \in 1..Len(SubproofNames)}

\* The code points of a string, by which Python orders strings: the
\* sub-proof names, the verifier names and the commitments of the registry.
CodePoints(k) ==
    CASE k = "DIP" -> <<68, 73, 80>>
      [] k = "DP" -> <<68, 80>>
      [] k = "PEP" -> <<80, 69, 80>>
      [] k = "PoPI" -> <<80, 111, 80, 73>>
      [] k = "CCP" -> <<67, 67, 80>>
      [] k = "CMIP" -> <<67, 77, 73, 80>>
      [] k = "PP" -> <<80, 80>>
      [] k = "TRP" -> <<84, 82, 80>>
      [] k = "a" -> <<97>>
      [] k = "b" -> <<98>>
      [] k = "c" -> <<99>>
      [] k = "unknown" -> <<117, 110, 107, 110, 111, 119, 110>>
      [] k = "h1" -> <<104, 49>>
      [] k = "h2" -> <<104, 50>>

RECURSIVE SeqLess(_, _)
SeqLess(a, b) ==
    IF a = <<>> THEN b # <<>>
    ELSE IF b = <<>> THEN FALSE
    ELSE IF Head(a) # Head(b) THEN Head(a) < Head(b)
    ELSE SeqLess(Tail(a), Tail(b))

StrLess(j, k) == SeqLess(CodePoints(j), CodePoints(k))

\* sorted(keys): the keys in ascending string order.
RECURSIVE sorted(_)
sorted(keys) ==
    IF keys = {} THEN <<>>
    ELSE LET least == CHOOSE k \in keys : \A j \in keys \ {k} : StrLess(k, j)
         IN <<least>> \o sorted(keys \ {least})

\* The master commitment of a replay of the chain in a fresh run.
replay_master(in, env, stages) ==
    LET p == build_primary(in, env, stages)
    IN IF p.exc # "none" THEN <<>> ELSE <<p.value[1].master>>

\* The result structure of one auxiliary check (bor.subproofs).  DIP and
\* the other replay checks run the chain again and compare with a second
\* execution, DP replays with a harmless extra configuration key, PEP
\* records that a malformed call is rejected, PoPI covers the primary proof.
run_subproof(k, in, env, stages, primary) ==
    CASE k = "PEP" -> [ok |-> TRUE, exception |-> "DeterminismError"]
      [] k = "PoPI" -> [ok |-> TRUE, master |-> primary.master]
      [] k = "DP" ->
           [diverged |->
              replay_master([in EXCEPT !.C = [offset |-> in.C.offset, bor_delta |-> 1]],
                            env, stages) # <<primary.master>>]
      [] OTHER -> [check |-> k, ok |-> replay_master(in, env, stages) = <<primary.master>>]

\* h_sub: SHA-256 of the key-sorted compact JSON of a result.
h_sub(obj) == <<"sha256", obj>>

\* A dict with its insertion order: the keys in the order they were first
\* assigned and the value of each key.
EmptyDict == [order |-> <<>>, map |-> <<>>]

\* d[k] = v on a dict: a new key goes to the end of the insertion order.
DictSet(d, k, v) ==
    IF k \in DOMAIN d.map
    THEN [d EXCEPT !.map[k] = v]
    ELSE [order |-> Append(d.order, k),
          map |-> [j \in (DOMAIN d.map) \cup {k} |-> IF j = k THEN v ELSE d.map[j]]]

\* "|".join of the sub-proof digests taken in the given key order.
JoinHashes(sub_hashes, keys) == [i \in 1..Len(keys) |-> sub_hashes.map[keys[i]]]

\* H_RICH folded in insertion order of the keys instead of sorted order.
compute_H_RICH_insertion_order(sub_hashes) ==
    <<"sha256", JoinHashes(sub_hashes, sub_hashes.order)>>

\* H_RICH: SHA-256 over the digests joined in sorted order of the keys.
compute_H_RICH(sub_hashes) ==
    <<"sha256", JoinHashes(sub_hashes, sorted(DOMAIN sub_hashes.map))>>

\* The body of build_bundle up to the assembled bundle dict: stages is what
\* the loop of build_primary gets from the iterable, check_stages what the
\* auxiliary checks get from it afterwards.
bundle_from(in, env, stages, check_stages) ==
    LET p == build_primary(in, env, stages)
    IN IF p.exc # "none" THEN [exc |-> p.exc, value |-> <<>>]
       ELSE LET primary == p.value[1]
                subproofs == [k \in NameSet |->
                                run_subproof(k, in, env, check_stages, primary)]
                sub_hashes == [order |-> SubproofNames,
                               map |-> [k \in NameSet |-> h_sub(subproofs[k])]]
            IN [exc |-> "none",
                value |-> <<[primary |-> primary,
                             subproofs |-> subproofs,
                             subproof_hashes |-> sub_hashes.map,
                             H_RICH |-> compute_H_RICH(sub_hashes),
                             H_MASTER |-> primary.master]>>]

\* build_bundle on a list of stage functions: every traversal of a list
\* yields all its elements.
build_bundle(in, env, stages) == bundle_from(in, env, stages, stages)

\* An iterable of stage functions: a list, or an iterator (a generator)
\* that can be traversed once.
Iterable(items, once) == [items |-> items, once |-> once]

\* One traversal (for fn in stages): the elements it yields and the
\* iterable as it is left.
traverse(it) ==
    [yielded |-> it.items,
     left |-> IF it.once THEN [it EXCEPT !.items = <<>>] ELSE it]

\* build_bundle on an iterable: build_primary traverses it, then the same
\* object is handed to the auxiliary checks.
build_bundle_iterable(in, env, it) ==
    LET first == traverse(it)
    IN bundle_from(in, env, first.yielded, traverse(first.left).yielded)

\* update_metric(key, value) on the metrics store.
update_metric(m, key, value) == [m EXCEPT ![key] = <<value>>]

\* ---------------------------------------------------------------------
\* Proof registry and consensus ledger
\* ---------------------------------------------------------------------

\* JSON null / Python None.
None == "null"

\* d.get(key) and d.get(key, default) on a JSON object.
get(d, key) == IF key \in DOMAIN d THEN d[key] ELSE None
get_default(d, key, default) == IF key \in DOMAIN d THEN d[key] ELSE default

\* Truth value of a string or None; a or b.
Truthy(v) == v # None /\ v # ""
Or(a, b) == IF Truthy(a) THEN a ELSE b

\* A registry entry that names the registering host as verifier.
registry_entry_with_user(bundle) ==
    [H_RICH |-> get(bundle, "H_RICH"),
     H_MASTER |-> Or(get(bundle, "H_MASTER"), get(get_default(bundle, "primary", <<>>), "master")),
     timestamp |-> get(bundle, "generated_at"),
     user |-> "a"]

\* The registry entry register_current_proof builds from a bundle file.
registry_entry(bundle) ==
    [H_RICH |-> get(bundle, "H_RICH"),
     H_MASTER |-> Or(get(bundle, "H_MASTER"), get(get_default(bundle, "primary", <<>>), "master")),
     timestamp |-> get(bundle, "generated_at")]

\* isinstance(data, list) of the parsed registry file: a file holding a
\* JSON object is marked by the field "object".
isinstance_list(reg) == "object" \notin DOMAIN reg

\* registry_data.append(entry) raises AttributeError on a JSON object.
register_raises(reg) == reg.exists /\ ~isinstance_list(reg)

\* register_current_proof that drops the oldest entry when it adds one.
register_current_proof_rotating(reg, bundle) ==
    LET registry_data == IF reg.exists THEN reg.items ELSE <<>>
    IN IF register_raises(reg) THEN reg
       ELSE [exists |-> TRUE, valid |-> TRUE,
             items |-> Append(IF registry_data = <<>> THEN <<>> ELSE Tail(registry_data),
                              registry_entry(bundle))]

\* register_current_proof that replaces the registry by the new entry.
register_current_proof_overwrite(reg, bundle) ==
    [exists |-> TRUE, valid |-> TRUE, items |-> <<registry_entry(bundle)>>]

\* register_current_proof: load the list or start an empty one, append the
\* entry, write the list back.
register_current_proof(reg, bundle) ==
    LET registry_data == IF reg.exists THEN reg.items ELSE <<>>
    IN IF register_raises(reg) THEN reg
       ELSE [exists |-> TRUE, valid |-> TRUE,
             items |-> Append(registry_data, registry_entry(bundle))]

\* load_registry: the list in the file, [] when there is no file or the
\* file does not hold a list.
load_registry(reg) ==
    IF ~reg.exists THEN <<>>
    ELSE IF isinstance_list(reg) THEN reg.items ELSE <<>>

\* check_consensus: the largest number of registry entries that carry the
\* same H_RICH, compared with min_count.  Counter.most_common(1) returns
\* the value counted most often, the one met first among equals.
check_consensus(reg, min_count) ==
    IF ~reg.exists THEN [confirmed |-> FALSE, count |-> 0, h_rich |-> None]
    ELSE LET registry_data == reg.items
             at == {i \in 1..Len(registry_data) : Truthy(get(registry_data[i], "H_RICH"))}
             times(i) == Cardinality({j \in at : registry_data[j].H_RICH = registry_data[i].H_RICH})
         IN IF at = {} THEN [confirmed |-> FALSE, count |-> 0, h_rich |-> None]
            ELSE LET first == CHOOSE i \in at :
                                 /\ \A j \in at : times(j) <= times(i)
                                 /\ \A j \in at : (j < i) => times(j) < times(i)
                 IN [confirmed |-> times(first) >= min_count,
                     count |-> times(first),
                     h_rich |-> registry_data[first].H_RICH]

\* write_ledger that adds the epochs to those already in the file.
write_ledger_append(old, epochs) ==
    IF old = <<>> THEN <<epochs>> ELSE <<old[1] \o epochs>>

\* write_ledger: the ledger file is opened for writing and holds the
\* epochs given.
write_ledger(old, epochs) == <<epochs>>

\* The commitment read from the H_RICH key only.
commitment_of_no_fallback(e) == get(e, "H_RICH")

\* e.get("H_RICH") or e.get("hash")
commitment_of(e) == Or(get(e, "H_RICH"), get(e, "hash"))

\* group_by_hrich: entries grouped by H_RICH (or the legacy key "hash"),
\* the groups in order of first occurrence.
RECURSIVE group_by_hrich(_)
group_by_hrich(entries) ==
    IF entries = <<>> THEN EmptyDict
    ELSE LET by == group_by_hrich(SubSeq(entries, 1, Len(entries) - 1))
             e == entries[Len(entries)]
             h == commitment_of(e)
         IN IF Truthy(h)
            THEN DictSet(by, h, Append(IF h \in DOMAIN by.map THEN by.map[h] ELSE <<>>, e))
            ELSE by

\* datetime.date.today().isoformat()
today == "2026-01-01"

min_quorum_default == 3

\* One epoch counting every entry of the group, repeated verifiers included.
epoch_of_counting_entries(h, vlist, min_quorum) ==
    LET users == sorted({get_default(vlist[i], "user", "unknown") : i \in 1..Len(vlist)})
    IN [epoch |-> today, hash |-> h, verifiers |-> users, count |-> Len(vlist),
        status |-> IF Len(vlist) >= min_quorum THEN "CONSENSUS_CONFIRMED" ELSE "PENDING"]

\* The epoch of one group: its distinct verifiers, sorted, and its status.
epoch_of(h, vlist, min_quorum) ==
    LET users == sorted({get_default(vlist[i], "user", "unknown") : i \in 1..Len(vlist)})
    IN [epoch |-> today, hash |-> h, verifiers |-> users, count |-> Len(users),
        status |-> IF Len(users) >= min_quorum THEN "CONSENSUS_CONFIRMED" ELSE "PENDING"]

\* The sort key (status != "CONSENSUS_CONFIRMED", hash) compared as tuples.
KeyLess(x, y) ==
    LET kx == (x.status # "CONSENSUS_CONFIRMED")
        ky == (y.status # "CONSENSUS_CONFIRMED")
    IN (~kx /\ ky) \/ (kx = ky /\ StrLess(x.hash, y.hash))

\* epochs.sort(key=...): stable ascending sort.
RECURSIVE sort_epochs(_)
sort_epochs(epochs) ==
    IF epochs = <<>> THEN <<>>
    ELSE LET rest == sort_epochs(SubSeq(epochs, 1, Len(epochs) - 1))
             x == epochs[Len(epochs)]
             k == Cardinality({i \in 1..Len(rest) : ~KeyLess(x, rest[i])})
         IN SubSeq(rest, 1, k) \o <<x>> \o SubSeq(rest, k + 1, Len(rest))

\* compute_epochs without the final sort: epochs in order of first occurrence.
compute_epochs_unsorted(entries, min_quorum) ==
    LET by == group_by_hrich(entries)
    IN [i \in 1..Len(by.order) |->
          epoch_of(by.order[i], by.map[by.order[i]], min_quorum)]

\* compute_epochs: one epoch per group, confirmed first, then by hash.
compute_epochs(entries, min_quorum) ==
    LET by == group_by_hrich(entries)
    IN sort_epochs([i \in 1..Len(by.order) |->
                      epoch_of(by.order[i], by.map[by.order[i]], min_quorum)])

\* ---------------------------------------------------------------------
\* State
\* ---------------------------------------------------------------------

VARIABLES
    run,       \* the BoRRun object driven through its public methods
    outcome,   \* the last call made on it and the exception it raised
    applied,   \* the step functions whose add_step call returned normally, in call order
    aborted,   \* an add_step call on the run has raised DeterminismError
    mutation,  \* what changed run.steps since the stored proof was computed
    tampered,  \* run.steps has been modified other than through add_step
    built,     \* per independent execution: the build_bundle call made and its bundle
    metrics,   \* content of the metrics store (metrics.json)
    out_file,  \* content of out/rich_proof_bundle.json, if the file exists
    collected, \* the sub_hashes dict while the auxiliary checks complete
    rich,      \* H_RICH computed from the completed sub_hashes dict
    registry,  \* content of proof_registry.json, if the file exists
    ledger,    \* content of consensus_ledger.json, if the file exists
    pc,        \* per concurrent process: its position in its code
    loaded,    \* per concurrent process: the registry list it has read
    disk,      \* the bundle files under the audit root, in glob order
    report     \* the result of the last audit_last_n call, if any

vars == <<run, outcome, applied, aborted, mutation, tampered, built, metrics, out_file,
          collected, rich, registry, ledger, pc, loaded, disk, report>>

runVars == <<run, applied, aborted, mutation, tampered>>
bundleVars == <<built, metrics, out_file>>
checkVars == <<collected, rich>>
storeVars == <<registry, ledger>>
procVars == <<pc, loaded>>
auditVars == <<disk, report>>
extVars == <<checkVars, storeVars, procVars, auditVars>>

\* The independent executions that build a bundle, each on its own platform.
RunIds == {"r1", "r2"}
EnvOf(r) == IF r = "r1" THEN "envA" ELSE "envB"

\* proof_registry.json: whether the file exists, whether its content parses
\* as JSON, and the list it holds.
NoRegistry == [exists |-> FALSE, valid |-> TRUE, items |-> <<>>]

NoMetrics == [k \in {"H_MASTER", "H_RICH", "drift_detected"} |-> <<>>]

BoundedSeq(S, n) == UNION {[1..k -> S] : k \in 0..n}

\* Values an altered field of a step record is overwritten with.
AlteredValue(field) ==
    CASE field = "fn_name" -> "patched"
      [] field = "input_state" -> 999
      [] field = "output_state" -> 999
      [] field = "config" -> [offset |-> 99]
      [] field = "code_version" -> "v9.9"

RecordFields == {"fn_name", "input_state", "output_state", "config", "code_version"}

\* ---------------------------------------------------------------------
\* Operations on one run
\* ---------------------------------------------------------------------

Init ==
    /\ \E in \in Inputs, env \in Envs : run = NewRun(in, env)
    /\ outcome = [op |-> "init", arg |-> <<>>, exc |-> "none"]
    /\ applied = <<>>
    /\ aborted = FALSE
    /\ mutation = {}
    /\ tampered = FALSE
    /\ built = [r \in RunIds |-> <<>>]
    /\ metrics = NoMetrics
    /\ out_file = <<>>
    /\ collected = EmptyDict
    /\ rich = <<>>
    /\ registry = NoRegistry
    /\ ledger = <<>>
    /\ pc = <<>>
    /\ loaded = <<>>
    /\ disk = <<>>
    /\ report = <<>>

AddStep(fn) ==
    /\ Len(applied) < MaxSteps
    /\ \E res \in {add_step(run, fn)} :
          /\ run' = res.run
          /\ outcome' = [op |-> "add_step", arg |-> <<fn>>, exc |-> res.exc]
          /\ applied' = IF res.exc = "none" THEN Append(applied, fn) ELSE applied
          /\ aborted' = (aborted \/ res.exc = "DeterminismError")
          /\ mutation' = IF res.exc = "none" /\ run.proof # <<>>
                         THEN mutation \cup {"append"} ELSE mutation
          /\ UNCHANGED <<tampered, bundleVars, extVars>>

RunSteps(stage_fns) ==
    /\ Len(applied) + Len(stage_fns) <= MaxSteps
    /\ LET res == run_steps(run, stage_fns)
           added == Len(res.run.steps) - Len(run.steps)
       IN /\ run' = res.run
          /\ outcome' = [op |-> "run_steps", arg |-> stage_fns, exc |-> res.exc]
          /\ applied' = applied \o SubSeq(stage_fns, 1, added)
          /\ aborted' = (aborted \/ res.exc = "DeterminismError")
          /\ mutation' = IF added > 0 /\ run.proof # <<>>
                         THEN mutation \cup {"append"} ELSE mutation
          /\ UNCHANGED <<tampered, bundleVars, extVars>>

Finalize ==
    /\ run' = finalize(run)
    /\ outcome' = [op |-> "finalize", arg |-> <<>>, exc |-> "none"]
    /\ mutation' = {}
    /\ UNCHANGED <<applied, aborted, tampered, bundleVars, extVars>>

Verify ==
    /\ \E res \in {verify(run)} :
          /\ run' = res.run
          /\ outcome' = [op |-> "verify", arg |-> <<>>, exc |-> res.exc]
          /\ mutation' = IF run.proof = <<>> THEN mutation ELSE {}
    /\ UNCHANGED <<applied, aborted, tampered, bundleVars, extVars>>

ToPrimaryProof ==
    /\ outcome' = [op |-> "to_primary_proof", arg |-> <<>>,
                    exc |-> to_primary_proof(run).exc]
    /\ UNCHANGED <<run, applied, aborted, mutation, tampered, bundleVars, extVars>>

\* ---------------------------------------------------------------------
\* Mutation of the in-memory record list of a finalized run (run.steps is
\* a plain list of mutable BoRStep objects)
\* ---------------------------------------------------------------------

AlterRecord(i, field) ==
    /\ run.proof # <<>> /\ mutation = {} /\ ~tampered
    /\ i \in 1..Len(run.steps)
    /\ run.steps[i][field] # AlteredValue(field)
    /\ run' = [run EXCEPT !.steps[i][field] = AlteredValue(field)]
    /\ outcome' = [op |-> "mutate", arg |-> <<>>, exc |-> "none"]
    /\ mutation' = {field}
    /\ tampered' = TRUE
    /\ UNCHANGED <<applied, aborted, bundleVars, extVars>>

RemoveRecord(i) ==
    /\ run.proof # <<>> /\ mutation = {} /\ ~tampered
    /\ i \in 1..Len(run.steps)
    /\ run' = [run EXCEPT !.steps = SubSeq(@, 1, i - 1) \o SubSeq(@, i + 1, Len(@))]
    /\ outcome' = [op |-> "mutate", arg |-> <<>>, exc |-> "none"]
    /\ mutation' = {"remove"}
    /\ tampered' = TRUE
    /\ UNCHANGED <<applied, aborted, bundleVars, extVars>>

SwapRecords(i, j) ==
    /\ run.proof # <<>> /\ mutation = {} /\ ~tampered
    /\ i \in 1..Len(run.steps) /\ j \in 1..Len(run.steps) /\ i < j
    /\ run.steps[i] # run.steps[j]
    /\ run' = [run EXCEPT !.steps = [@ EXCEPT ![i] = run.steps[j], ![j] = run.steps[i]]]
    /\ outcome' = [op |-> "mutate", arg |-> <<>>, exc |-> "none"]
    /\ mutation' = {"reorder"}
    /\ tampered' = TRUE
    /\ UNCHANGED <<applied, aborted, bundleVars, extVars>>

Next ==
    \/ \E fn \in StepArgs : AddStep(fn)
    \/ \E stage_fns \in BoundedSeq(StepArgs, MaxSteps) : RunSteps(stage_fns)
    \/ Finalize
    \/ Verify
    \/ ToPrimaryProof
    \/ \E i \in 1..(MaxSteps + 1), field \in RecordFields : AlterRecord(i, field)
    \/ \E i \in 1..(MaxSteps + 1) : RemoveRecord(i)
    \/ \E i \in 1..(MaxSteps + 1), j \in 1..(MaxSteps + 1) : SwapRecords(i, j)

Spec == Init /\ [][Next]_vars

\* ---------------------------------------------------------------------
\* Independent executions of build_bundle
\* ---------------------------------------------------------------------

\* The bundle an earlier run left in out/rich_proof_bundle.json: the chain
\* [add, square] on initial state 7, offset 4, version v1.0.
PreviousBundle ==
    build_bundle([S0 |-> 7, C |-> [offset |-> 4], V |-> "v1.0"], "envA", <<add, square>>).value[1]

\* A bundle file whose content does not parse as JSON.
MalformedFile == [unparsable |-> TRUE]

InitBundles ==
    /\ run = NewRun(CHOOSE in \in Inputs : in.S0 = 7 /\ in.V = "v1.0", "envA")
    /\ outcome = [op |-> "init", arg |-> <<>>, exc |-> "none"]
    /\ applied = <<>>
    /\ aborted = FALSE
    /\ mutation = {}
    /\ tampered = FALSE
    /\ built = [r \in RunIds |-> <<>>]
    /\ metrics = NoMetrics
    /\ out_file \in {<<>>, <<PreviousBundle>>, <<MalformedFile>>}
    /\ collected = EmptyDict
    /\ rich = <<>>
    /\ registry = NoRegistry
    /\ ledger = <<>>
    /\ pc = <<>>
    /\ loaded = <<>>
    /\ disk = <<>>
    /\ report = <<>>

\* The invariant-framework tail of build_bundle: record the metrics, then
\* compare with the master of the bundle file of the previous run.
\* The drift check against the previous bundle file (the body of the try
\* block): json.load of the file, then drift_check_hook.
drift_check(m, file, current_master) ==
    IF file = <<>> THEN [exc |-> "none", metrics |-> m]
    ELSE IF "unparsable" \in DOMAIN file[1]
    THEN [exc |-> "JSONDecodeError", metrics |-> m]
    ELSE LET prev_master == Or(get(file[1], "H_MASTER"),
                               get(get_default(file[1], "primary", <<>>), "master"))
         IN IF Truthy(prev_master)
            THEN [exc |-> "none",
                  metrics |-> update_metric(m, "drift_detected",
                                            prev_master # current_master)]
            ELSE [exc |-> "none", metrics |-> m]

\* The metrics store after a successful build: H_MASTER, H_RICH, then the
\* drift check inside try / except Exception: pass.
MetricsAfterBuild(bundle) ==
    LET m1 == update_metric(metrics, "H_MASTER", bundle.H_MASTER)
        m2 == update_metric(m1, "H_RICH", bundle.H_RICH)
    IN drift_check(m2, out_file, bundle.H_MASTER).metrics

\* The first stage function that raises or is not callable, if any.
FailingStage(stages) ==
    LET bad == {i \in 1..Len(stages) : stages[i] \in {boom, not_callable}}
    IN IF bad = {} THEN <<>>
       ELSE <<stages[CHOOSE i \in bad : \A j \in bad : i <= j]>>

BuildBundle(r, in, stages) ==
    /\ built[r] = <<>>
    /\ \E res \in {build_bundle(in, EnvOf(r), stages)} :
          /\ outcome' = [op |-> "build_bundle", arg |-> FailingStage(stages),
                          exc |-> res.exc]
          /\ IF res.exc # "none"
             THEN UNCHANGED <<built, metrics>>
             ELSE /\ built' = [built EXCEPT ![r] =
                                 <<[in |-> in, stages |-> stages,
                                    bundle |-> res.value[1]]>>]
                  /\ metrics' = MetricsAfterBuild(res.value[1])
    /\ UNCHANGED <<runVars, out_file, extVars>>

NextBundles ==
    \E r \in RunIds, in \in Inputs, stages \in BoundedSeq(StepArgs, MaxSteps) :
          BuildBundle(r, in, stages)

SpecBundles == InitBundles /\ [][NextBundles]_vars

\* ---------------------------------------------------------------------
\* The auxiliary checks of one bundle completing in any order
\* ---------------------------------------------------------------------

ChecksInput == [S0 |-> 7, C |-> [offset |-> 4], V |-> "v1.0"]

ChecksStages == {<<add, square>>, <<square>>}

\* The bundle build_bundle returned for the inputs, and no check result
\* collected yet by an execution that runs the checks independently.
InitChecks ==
    /\ run = NewRun(ChecksInput, "envA")
    /\ outcome = [op |-> "init", arg |-> <<>>, exc |-> "none"]
    /\ applied = <<>>
    /\ aborted = FALSE
    /\ mutation = {}
    /\ tampered = FALSE
    /\ \E stages \in ChecksStages :
          built = [r \in RunIds |->
                     IF r = "r1"
                     THEN <<[in |-> ChecksInput, stages |-> stages,
                             bundle |-> build_bundle(ChecksInput, EnvOf(r), stages).value[1]]>>
                     ELSE <<>>]
    /\ metrics = NoMetrics
    /\ out_file = <<>>
    /\ collected = EmptyDict
    /\ rich = <<>>
    /\ registry = NoRegistry
    /\ ledger = <<>>
    /\ pc = <<>>
    /\ loaded = <<>>
    /\ disk = <<>>
    /\ report = <<>>

\* Check k completes: its result is hashed and sub_hashes[k] is assigned.
CompleteCheck(k) ==
    /\ k \notin DOMAIN collected.map
    /\ LET b == built["r1"][1]
       IN collected' = DictSet(collected, k,
                          h_sub(run_subproof(k, b.in, EnvOf("r1"), b.stages, b.bundle.primary)))
    /\ outcome' = [op |-> "check", arg |-> <<k>>, exc |-> "none"]
    /\ UNCHANGED <<runVars, auditVars, bundleVars, rich, storeVars, procVars>>

\* All checks have completed: H_RICH is computed from the dict.
ComputeRich ==
    /\ DOMAIN collected.map = NameSet
    /\ rich = <<>>
    /\ rich' = <<compute_H_RICH(collected)>>
    /\ outcome' = [op |-> "H_RICH", arg |-> <<>>, exc |-> "none"]
    /\ UNCHANGED <<runVars, auditVars, bundleVars, collected, storeVars, procVars>>

NextChecks ==
    \/ \E k \in NameSet : CompleteCheck(k)
    \/ ComputeRich

SpecChecks == InitChecks /\ [][NextChecks]_vars

\* ---------------------------------------------------------------------
\* Registrations and ledger builds on one registry, one command at a time
\* ---------------------------------------------------------------------

MaxEntries == 4

\* Bundle files as register_current_proof reads them; the second is a
\* bundle written before H_MASTER was stored at the top level.
BundleFileA ==
    [H_RICH |-> "h1", H_MASTER |-> "m1", primary |-> [master |-> "m1"], generated_at |-> "t1"]
BundleFileB ==
    [H_RICH |-> "h1", primary |-> [master |-> "m1"], generated_at |-> "t2"]

\* Registry entries: those of the tests (verifier and commitment, also
\* under the legacy key), one without commitment, one written by
\* register_current_proof.
EntryUniverse ==
    << [user |-> "a", H_RICH |-> "h2"],
       [user |-> "b", H_RICH |-> "h2"],
       [user |-> "c", hash |-> "h2"],
       [user |-> "a", H_RICH |-> "h1"],
       [user |-> "b"],
       registry_entry(BundleFileA) >>

EntrySet == {EntryUniverse[i] : i \in 1..Len(EntryUniverse)}

Quorums == {2, min_quorum_default}

\* A registry file that holds a JSON object instead of a list.
NonListRegistry == [exists |-> TRUE, valid |-> TRUE, items |-> <<>>, object |-> TRUE]

InitLedger ==
    /\ run = NewRun(ChecksInput, "envA")
    /\ outcome = [op |-> "init", arg |-> <<>>, exc |-> "none"]
    /\ applied = <<>>
    /\ aborted = FALSE
    /\ mutation = {}
    /\ tampered = FALSE
    /\ built = [r \in RunIds |-> <<>>]
    /\ metrics = NoMetrics
    /\ out_file \in {<<BundleFileA>>, <<BundleFileB>>}
    /\ collected = EmptyDict
    /\ rich = <<>>
    /\ registry \in {NoRegistry, NonListRegistry} \cup
                     {[exists |-> TRUE, valid |-> TRUE, items |-> items] :
                        items \in BoundedSeq(EntrySet, MaxEntries)}
    /\ ledger = <<>>
    /\ pc = <<>>
    /\ loaded = <<>>
    /\ disk = <<>>
    /\ report = <<>>

\* evaluate_invariant registers the bundle file in the registry.
Register ==
    /\ out_file # <<>>
    /\ Len(registry.items) < MaxEntries
    /\ registry' = register_current_proof(registry, out_file[1])
    /\ outcome' = [op |-> "register", arg |-> <<>>,
                    exc |-> IF register_raises(registry) THEN "AttributeError"
                            ELSE "none"]
    /\ UNCHANGED <<runVars, auditVars, bundleVars, checkVars, ledger, procVars>>

\* load_registry, compute_epochs, write_ledger.
BuildLedger(min_quorum) ==
    /\ ledger' = write_ledger(ledger, compute_epochs(load_registry(registry), min_quorum))
    /\ outcome' = [op |-> "ledger", arg |-> <<min_quorum>>, exc |-> "none"]
    /\ UNCHANGED <<runVars, auditVars, bundleVars, checkVars, registry, procVars>>

\* check_consensus on the registry file.
CheckConsensus(min_count) ==
    /\ \E res \in {check_consensus(registry, min_count)} :
          outcome' = [op |-> "consensus",
                      arg |-> <<[min_count |-> min_count, confirmed |-> res.confirmed,
                                 count |-> res.count, h_rich |-> res.h_rich]>>,
                      exc |-> "none"]
    /\ UNCHANGED <<runVars, auditVars, bundleVars, checkVars, storeVars, procVars>>

NextLedger ==
    \/ Register
    \/ \E min_quorum \in Quorums : BuildLedger(min_quorum)
    \/ \E min_count \in Quorums : CheckConsensus(min_count)

SpecLedger == InitLedger /\ [][NextLedger]_vars

\* ---------------------------------------------------------------------
\* Two registrations and a ledger build running concurrently
\* ---------------------------------------------------------------------

Registrars == {"p1", "p2"}
Procs == Registrars \cup {"reader"}

\* The registry the concurrent commands start from: no file, or one entry.
InitialRegistries ==
    {NoRegistry, [exists |-> TRUE, valid |-> TRUE, items |-> <<[user |-> "a", H_RICH |-> "h2"]>>]}

InitConcurrent ==
    /\ run = NewRun(ChecksInput, "envA")
    /\ outcome = [op |-> "init", arg |-> <<>>, exc |-> "none"]
    /\ applied = <<>>
    /\ aborted = FALSE
    /\ mutation = {}
    /\ tampered = FALSE
    /\ built = [r \in RunIds |-> <<>>]
    /\ metrics = NoMetrics
    /\ out_file = <<BundleFileA>>
    /\ collected = EmptyDict
    /\ rich = <<>>
    /\ registry \in InitialRegistries
    /\ ledger = <<>>
    /\ pc = [p \in Procs |-> "start"]
    /\ loaded = [p \in Procs |-> [bundle |-> <<>>, data |-> <<>>]]
    /\ disk = <<>>
    /\ report = <<>>

\* A new bundle replaces the bundle file.
ProduceBundle ==
    /\ out_file = <<BundleFileA>>
    /\ out_file' = <<BundleFileB>>
    /\ outcome' = [op |-> "produce_bundle", arg |-> <<>>, exc |-> "none"]
    /\ UNCHANGED <<runVars, auditVars, built, metrics, checkVars, storeVars, procVars>>

\* register_current_proof, lines 48-49: read the bundle file.
ReadBundle(p) ==
    /\ pc[p] = "start"
    /\ out_file # <<>>
    /\ loaded' = [loaded EXCEPT ![p].bundle = <<out_file[1]>>]
    /\ pc' = [pc EXCEPT ![p] = "bundle_read"]
    /\ outcome' = [op |-> "read_bundle", arg |-> <<p>>, exc |-> "none"]
    /\ UNCHANGED <<runVars, auditVars, bundleVars, checkVars, storeVars>>

\* Lines 58-62: read the registry list, or start an empty one; json.load
\* raises on a file that another process has truncated and not yet written.
LoadForAppend(p) ==
    /\ pc[p] = "bundle_read"
    /\ IF registry.exists /\ ~registry.valid
       THEN /\ pc' = [pc EXCEPT ![p] = "failed"]
            /\ outcome' = [op |-> "load", arg |-> <<p>>, exc |-> "JSONDecodeError"]
            /\ UNCHANGED loaded
       ELSE /\ pc' = [pc EXCEPT ![p] = "loaded"]
            /\ loaded' = [loaded EXCEPT ![p].data =
                             IF registry.exists THEN registry.items ELSE <<>>]
            /\ outcome' = [op |-> "load", arg |-> <<p>>, exc |-> "none"]
    /\ UNCHANGED <<runVars, auditVars, bundleVars, checkVars, storeVars>>

\* Line 66: open(proof_registry_path, 'w') truncates the file.
OpenForWrite(p) ==
    /\ pc[p] = "loaded"
    /\ registry' = [exists |-> TRUE, valid |-> FALSE, items |-> <<>>]
    /\ pc' = [pc EXCEPT ![p] = "writing"]
    /\ outcome' = [op |-> "open_w", arg |-> <<p>>, exc |-> "none"]
    /\ UNCHANGED <<runVars, auditVars, bundleVars, checkVars, ledger, loaded>>

\* Lines 64-67: the list read earlier plus the new entry is written.
Dump(p) ==
    /\ pc[p] = "writing"
    /\ registry' = register_current_proof(
                      [exists |-> TRUE, valid |-> TRUE, items |-> loaded[p].data],
                      loaded[p].bundle[1])
    /\ pc' = [pc EXCEPT ![p] = "done"]
    /\ outcome' = [op |-> "dump", arg |-> <<p>>, exc |-> "none"]
    /\ UNCHANGED <<runVars, auditVars, bundleVars, checkVars, ledger, loaded>>

\* load_registry of the ledger build.
ReaderLoad ==
    /\ pc["reader"] = "start"
    /\ IF registry.exists /\ ~registry.valid
       THEN /\ pc' = [pc EXCEPT !["reader"] = "failed"]
            /\ outcome' = [op |-> "load_registry", arg |-> <<"reader">>,
                            exc |-> "JSONDecodeError"]
            /\ UNCHANGED loaded
       ELSE /\ pc' = [pc EXCEPT !["reader"] = "done"]
            /\ loaded' = [loaded EXCEPT !["reader"].data = load_registry(registry)]
            /\ outcome' = [op |-> "load_registry", arg |-> <<"reader">>, exc |-> "none"]
    /\ UNCHANGED <<runVars, auditVars, bundleVars, checkVars, storeVars>>

NextConcurrent ==
    \/ ProduceBundle
    \/ \E p \in Registrars : ReadBundle(p)
    \/ \E p \in Registrars : LoadForAppend(p)
    \/ \E p \in Registrars : OpenForWrite(p)
    \/ \E p \in Registrars : Dump(p)
    \/ ReaderLoad

SpecConcurrent == InitConcurrent /\ [][NextConcurrent]_vars

\* ---------------------------------------------------------------------
\* Self-audit of the bundle files under the audit root
\* ---------------------------------------------------------------------

MaxBundles == 3

\* A bundle whose stored H_RICH was altered after writing: it is the digest
\* of no sub-proof hash at all.
CorruptedBundle == [PreviousBundle EXCEPT !.H_RICH = compute_H_RICH(EmptyDict)]

FileContents == {PreviousBundle, CorruptedBundle, MalformedFile}

AuditPaths == <<"a.json", "b.json", "c.json", "d.json", "e.json">>

\* Modification times; files may share one.
MTimes == {1, 2}

\* bor.verify.verify_bundle_file: parse the file, recompute the master
\* from the stage hashes and H_RICH from the sub-proof hashes, compare with
\* the stored values.
verify_bundle_file(file) ==
    IF "unparsable" \in DOMAIN file
    THEN [exc |-> "JSONDecodeError", value |-> <<>>]
    ELSE [exc |-> "none",
          value |-> <<[ok |->
              /\ file.primary.master = content_hash(P2Concat(file.primary.stage_hashes))
              /\ file.H_RICH = compute_H_RICH([order |-> SubproofNames,
                                               map |-> file.subproof_hashes])]>>]

\* sorted(paths, key=os.path.getmtime, reverse=True): newest first, files
\* of equal time in their glob order.
RECURSIVE sorted_by_mtime(_)
sorted_by_mtime(files) ==
    IF files = <<>> THEN <<>>
    ELSE LET rest == sorted_by_mtime(SubSeq(files, 1, Len(files) - 1))
             x == files[Len(files)]
             k == Cardinality({i \in 1..Len(rest) : rest[i].mtime >= x.mtime})
         IN SubSeq(rest, 1, k) \o <<x>> \o SubSeq(rest, k + 1, Len(rest))

\* paths[:limit]
Slice(paths, limit) ==
    IF limit >= 0
    THEN SubSeq(paths, 1, IF limit < Len(paths) THEN limit ELSE Len(paths))
    ELSE SubSeq(paths, 1, IF Len(paths) + limit > 0 THEN Len(paths) + limit ELSE 0)

\* discover_bundles that returns every bundle found.
discover_bundles_no_limit(files, limit) == sorted_by_mtime(files)

discover_bundles(files, limit) == Slice(sorted_by_mtime(files), limit)

\* replay_bundle without the except clause.
replay_bundle_no_catch(file) ==
    LET result == verify_bundle_file(file)
    IN IF result.exc # "none" THEN [exc |-> result.exc, value |-> <<>>]
       ELSE [exc |-> "none",
             value |-> <<[ok |-> result.value[1].ok,
                          reason |-> IF result.value[1].ok THEN None
                                     ELSE "verify_bundle_failed"]>>]

\* replay_bundle: the verification result, an exception turned into a
\* failed result with its message as reason.
replay_bundle(file) ==
    LET result == verify_bundle_file(file)
    IN IF result.exc # "none"
       THEN [exc |-> "none", value |-> <<[ok |-> FALSE, reason |-> result.exc]>>]
       ELSE [exc |-> "none",
             value |-> <<[ok |-> result.value[1].ok,
                          reason |-> IF result.value[1].ok THEN None
                                     ELSE "verify_bundle_failed"]>>]

\* The loop of audit_last_n over the discovered bundles.
RECURSIVE audit_loop(_)
audit_loop(bundles) ==
    IF bundles = <<>> THEN [exc |-> "none", verified |-> 0, drift |-> <<>>]
    ELSE LET before == audit_loop(SubSeq(bundles, 1, Len(bundles) - 1))
             b == bundles[Len(bundles)]
             r == replay_bundle(b.file)
         IN IF before.exc # "none" THEN before
            ELSE IF r.exc # "none" THEN [before EXCEPT !.exc = r.exc]
            ELSE IF r.value[1].ok THEN [before EXCEPT !.verified = @ + 1]
            ELSE [before EXCEPT !.drift =
                    Append(@, [bundle |-> b.path, reason |-> r.value[1].reason])]

audit_last_n(n, files) ==
    LET bundles == discover_bundles(files, n)
        res == audit_loop(bundles)
    IN IF res.exc # "none" THEN [exc |-> res.exc, value |-> <<>>]
       ELSE [exc |-> "none",
             value |-> <<[checked |-> Len(bundles), verified |-> res.verified,
                          drift |-> res.drift, ok |-> res.verified = Len(bundles)]>>]

InitAudit ==
    /\ run = NewRun(ChecksInput, "envA")
    /\ outcome = [op |-> "init", arg |-> <<>>, exc |-> "none"]
    /\ applied = <<>>
    /\ aborted = FALSE
    /\ mutation = {}
    /\ tampered = FALSE
    /\ built = [r \in RunIds |-> <<>>]
    /\ metrics = NoMetrics
    /\ out_file = <<>>
    /\ collected = EmptyDict
    /\ rich = <<>>
    /\ registry = NoRegistry
    /\ ledger = <<>>
    /\ pc = <<>>
    /\ loaded = <<>>
    /\ \E k \in 0..MaxBundles :
          \E times \in [1..k -> MTimes], contents \in [1..k -> FileContents] :
             disk = [i \in 1..k |-> [path |-> AuditPaths[i], mtime |-> times[i],
                                      file |-> contents[i]]]
    /\ report = <<>>

Audit(n) ==
    /\ \E res \in {audit_last_n(n, disk)} :
          /\ report' = res.value
          /\ outcome' = [op |-> "audit", arg |-> <<n>>, exc |-> res.exc]
    /\ UNCHANGED <<runVars, bundleVars, checkVars, storeVars, procVars, disk>>

NextAudit == \E n \in (0 - 1)..(MaxBundles + 1) : Audit(n)

SpecAudit == InitAudit /\ [][NextAudit]_vars

\* ---------------------------------------------------------------------
\* evaluate_invariant: verify the current bundle file, then register it
\* ---------------------------------------------------------------------

\* The bundle of another chain on the same input.
OtherBundle ==
    build_bundle([S0 |-> 7, C |-> [offset |-> 4], V |-> "v1.0"], "envA", <<square>>).value[1]

BundleFiles == {PreviousBundle, OtherBundle, CorruptedBundle, MalformedFile}

\* evaluate_invariant that registers the bundle before it looks at the
\* verification result.
evaluate_invariant_register_first(file, reg) ==
    IF file = <<>> THEN [exit |-> 1, registry |-> reg]
    ELSE LET result == verify_bundle_file(file[1])
         IN IF result.exc # "none" THEN [exit |-> 1, registry |-> reg]
            ELSE IF register_raises(reg) THEN [exit |-> 1, registry |-> reg]
            ELSE [exit |-> IF result.value[1].ok THEN 0 ELSE 1,
                  registry |-> register_current_proof(reg, file[1])]

\* The main block of evaluate_invariant without options: exit status and
\* the registry file it leaves.
evaluate_invariant(file, reg) ==
    IF file = <<>> THEN [exit |-> 1, registry |-> reg]
    ELSE LET result == verify_bundle_file(file[1])
         IN IF result.exc # "none" THEN [exit |-> 1, registry |-> reg]
            ELSE IF ~result.value[1].ok THEN [exit |-> 1, registry |-> reg]
            ELSE IF register_raises(reg) THEN [exit |-> 1, registry |-> reg]
            ELSE [exit |-> 0, registry |-> register_current_proof(reg, file[1])]

InitEvaluate ==
    /\ run = NewRun(ChecksInput, "envA")
    /\ outcome = [op |-> "init", arg |-> <<>>, exc |-> "none"]
    /\ applied = <<>>
    /\ aborted = FALSE
    /\ mutation = {}
    /\ tampered = FALSE
    /\ built = [r \in RunIds |-> <<>>]
    /\ metrics = NoMetrics
    /\ out_file \in {<<>>} \cup {<<f>> : f \in BundleFiles}
    /\ collected = EmptyDict
    /\ rich = <<>>
    /\ registry \in {NoRegistry, NonListRegistry,
                      [exists |-> TRUE, valid |-> TRUE, items |-> <<>>]}
    /\ ledger = <<>>
    /\ pc = <<>>
    /\ loaded = <<>>
    /\ disk = <<>>
    /\ report = <<>>

\* One run of evaluate_invariant.
Evaluate ==
    /\ Len(registry.items) < MaxEntries
    /\ \E res \in {evaluate_invariant(out_file, registry)} :
          /\ registry' = res.registry
          /\ outcome' = [op |-> "evaluate", arg |-> <<res.exit>>, exc |-> "none"]
    /\ UNCHANGED <<runVars, auditVars, bundleVars, checkVars, ledger, procVars>>

\* A proof generation, or an edit, replaces the bundle file.
ReplaceBundle(file) ==
    /\ out_file # <<file>>
    /\ out_file' = <<file>>
    /\ outcome' = [op |-> "replace_bundle", arg |-> <<>>, exc |-> "none"]
    /\ UNCHANGED <<runVars, auditVars, built, metrics, checkVars, storeVars, procVars>>

NextEvaluate ==
    \/ Evaluate
    \/ \E file \in BundleFiles : ReplaceBundle(file)

SpecEvaluate == InitEvaluate /\ [][NextEvaluate]_vars

\* ---------------------------------------------------------------------
\* build_bundle on lists and on one-shot iterables of stage functions
\* ---------------------------------------------------------------------

InitIterables ==
    /\ run = NewRun(ChecksInput, "envA")
    /\ outcome = [op |-> "init", arg |-> <<>>, exc |-> "none"]
    /\ applied = <<>>
    /\ aborted = FALSE
    /\ mutation = {}
    /\ tampered = FALSE
    /\ built = [r \in RunIds |-> <<>>]
    /\ metrics = NoMetrics
    /\ out_file = <<>>
    /\ collected = EmptyDict
    /\ rich = <<>>
    /\ registry = NoRegistry
    /\ ledger = <<>>
    /\ pc = <<>>
    /\ loaded = <<>>
    /\ disk = <<>>
    /\ report = <<>>

BuildBundleIterable(r, in, it) ==
    /\ built[r] = <<>>
    /\ \E res \in {build_bundle_iterable(in, EnvOf(r), it)} :
          /\ outcome' = [op |-> "build_bundle", arg |-> <<it>>, exc |-> res.exc]
          /\ IF res.exc # "none"
             THEN UNCHANGED <<built, metrics>>
             ELSE /\ built' = [built EXCEPT ![r] =
                                 <<[in |-> in, stages |-> it.items,
                                    bundle |-> res.value[1]]>>]
                  /\ metrics' = MetricsAfterBuild(res.value[1])
    /\ UNCHANGED <<runVars, out_file, extVars>>

NextIterables ==
    \E in \in Inputs, items \in BoundedSeq(StepArgs, MaxSteps), once \in BOOLEAN :
          BuildBundleIterable("r1", in, Iterable(items, once))

SpecIterables == InitIterables /\ [][NextIterables]_vars

TypeOK ==
    /\ Len(run.steps) <= MaxSteps
    /\ Len(applied) <= MaxSteps

\* ---------------------------------------------------------------------
\* Properties of one run
\* ---------------------------------------------------------------------

\* The state the next add_step call hands to its function.
prev_state_of(r) == IF r.steps = <<>> THEN r.initial_state ELSE r.final_state[1]

\* A call of add_step with this argument raises.
Fails(r, fn) ==
    ~callable(fn) \/ Call(fn, prev_state_of(r), r.config, r.code_version).raised

ApiOps == {"add_step", "run_steps", "finalize", "verify", "to_primary_proof"}

\* C5: state threading.  On a run whose records were only written by
\* add_step there is one record (and one fingerprint) per successful call,
\* the first record's input is the initial state, every later record's
\* input is the previous record's output, each output is what the called
\* function returns on that input, and for initial state 7, offset 4 and
\* steps [add, square] the outputs are 11 then 121 with two fingerprints.
C5_StateThreading ==
    ~tampered =>
        /\ Len(run.steps) = Len(applied)
        /\ Len(stage_hashes_of(run)) = Len(applied)
        /\ \A i \in 1..Len(run.steps) :
              /\ run.steps[i].fn_name = applied[i].name
              /\ run.steps[i].input_state =
                    (IF i = 1 THEN run.initial_state ELSE run.steps[i - 1].output_state)
              /\ run.steps[i].output_state =
                    Call(applied[i], run.steps[i].input_state,
                         run.config, run.code_version).value
        /\ (run.steps # <<>> => run.final_state = <<run.steps[Len(run.steps)].output_state>>)
        /\ (run.initial_state = 7 /\ run.config = [offset |-> 4] /\ applied = <<add, square>>
              => /\ run.steps[1].output_state = 11
                 /\ run.steps[2].output_state = 121
                 /\ Len(stage_hashes_of(run)) = 2)

C5_Witness ==
    /\ ~tampered
    /\ run.initial_state = 7 /\ run.config = [offset |-> 4]
    /\ applied = <<add, square>>
    /\ run.steps[2].input_state = 11 /\ run.steps[2].output_state = 121

\* C6: an add_step call whose function raises or is not callable raises
\* DeterminismError and leaves the run as it was: no record is appended
\* and the state handed to the next step is unchanged.
C6_FailedStepLeavesRun ==
    [][(outcome'.op = "add_step" /\ Fails(run, outcome'.arg[1]))
         => /\ outcome'.exc = "DeterminismError"
            /\ run' = run
            /\ prev_state_of(run') = prev_state_of(run)
            /\ applied' = applied]_vars

C6_Witness ==
    /\ outcome.op = "add_step" /\ outcome.exc = "DeterminismError"
    /\ outcome.arg = <<boom>>
    /\ Len(run.steps) = 1 /\ ~tampered

\* C7 as claimed: once add_step has raised DeterminismError on a run, no
\* later finalize() on that run produces a proof.
C7_NoFinalizeAfterFailure ==
    ~(aborted /\ outcome.op = "finalize" /\ outcome.exc = "none" /\ run.proof # <<>>)

\* C8 as claimed: once a run has been finalized, a call of add_step (or
\* run_steps) appends nothing, and no method call changes the step
\* records, the fingerprints or the stored master commitment.
C8_FinalizedIsFrozen ==
    [][(run.proof # <<>> /\ ~tampered /\ outcome'.op \in ApiOps)
         => /\ run'.steps = run.steps
            /\ run'.proof # <<>>
            /\ run'.proof[1].master = run.proof[1].master]_vars

ClaimedMutations ==
    {"append", "remove", "reorder", "fn_name", "input_state", "config", "code_version"}

\* C9 as claimed: after a record of a finalized run was appended, removed,
\* reordered, or had its function identifier, input state, configuration
\* or version altered, the next verify() raises HashMismatchError.
C9_VerifyCatchesMutation ==
    [][(mutation \cap ClaimedMutations # {} /\ outcome'.op = "verify")
         => outcome'.exc = "HashMismatchError"]_vars

\* C10 as claimed: a verify() that raises HashMismatchError leaves the
\* stored proof as it was, and a verify() that directly follows one that
\* raised HashMismatchError raises it again.
C10_MismatchNotCorrected ==
    [][/\ (outcome'.op = "verify" /\ outcome'.exc = "HashMismatchError")
            => run'.proof = run.proof
       /\ (outcome.op = "verify" /\ outcome.exc = "HashMismatchError"
             /\ outcome'.op = "verify")
            => outcome'.exc = "HashMismatchError"]_vars

\* C11: idempotent verify.  On a finalized run whose records have not
\* changed since the stored proof was computed, verify() does not raise and
\* changes no stored value: step records, fingerprints, meta, master
\* commitment and exported proof are what they were before the call.
C11_IdempotentVerify ==
    [][(run.proof # <<>> /\ mutation = {} /\ outcome'.op = "verify")
         => /\ outcome'.exc = "none"
            /\ run' = run
            /\ stage_hashes_of(run') = stage_hashes_of(run)
            /\ to_primary_proof(run') = to_primary_proof(run)]_vars

C11_Witness ==
    /\ outcome.op = "verify" /\ outcome.exc = "none"
    /\ ~tampered /\ mutation = {}
    /\ Len(run.steps) = 2
    /\ run.proof # <<>> /\ Len(run.proof[1].steps) = 2

\* C12 as claimed: after the first finalize() of a run, to_primary_proof()
\* returns the proof of that first finalize whatever add_step, finalize and
\* verify calls follow, so no method call changes what is exported.
C12_FirstFinalizeAuthoritative ==
    [][(run.proof # <<>> /\ ~tampered /\ outcome'.op \in ApiOps)
         => to_primary_proof(run') = to_primary_proof(run)]_vars

\* C30: every proof finalize() returns is internally consistent.  It has
\* one step record per recorded step, numbered 1..n, in call order when the
\* records were written by add_step only; stage_hashes has the same length
\* and its i-th element is the fingerprint of the i-th record; master is the
\* commitment over exactly stage_hashes; meta carries the initial state,
\* configuration, version and the initialization hash computed from them at
\* construction.  With no steps the lists are empty and master is the hash
\* of "P2|".
C30_ProofConsistent ==
    [][(outcome'.op \in {"finalize", "verify"} /\ run'.proof # <<>>) =>
         LET proof == run'.proof[1]
             n == Len(run.steps)
         IN /\ Len(proof.steps) = n
            /\ Len(proof.stage_hashes) = n
            /\ \A i \in 1..n :
                  /\ proof.steps[i].i = i
                  /\ proof.steps[i].fn = run.steps[i].fn_name
                  /\ proof.steps[i].input = run.steps[i].input_state
                  /\ proof.steps[i].output = run.steps[i].output_state
                  /\ proof.stage_hashes[i] = proof.steps[i].fingerprint
            /\ ~tampered =>
                  /\ Len(applied) = n
                  /\ \A i \in 1..n : proof.steps[i].fn = applied[i].name
            /\ proof.master = <<"sha256", [tag |-> "P2", parts |-> proof.stage_hashes]>>
            /\ proof.meta.S0 = run.initial_state
            /\ proof.meta.C = run.config
            /\ proof.meta.V = run.code_version
            /\ proof.meta.H0 = <<"sha256", [S0 |-> run.initial_state, C |-> run.config,
                                           V |-> run.code_version, env |-> run.env]>>
            /\ n = 0 => /\ proof.steps = <<>> /\ proof.stage_hashes = <<>>
                        /\ proof.master = <<"sha256", [tag |-> "P2", parts |-> <<>>]>>]_vars

C30_Witness ==
    /\ outcome.op = "finalize"
    /\ ~tampered
    /\ Len(run.proof[1].steps) = 2
    /\ run.proof[1].steps[1].fn = "square"
    /\ run.proof[1].steps[2].fn = "add"
    /\ run.proof[1].steps[2].i = 2

\* ---------------------------------------------------------------------
\* Properties of the registry and the consensus ledger
\* ---------------------------------------------------------------------

\* The commitment an entry carries, if any: H_RICH, else the legacy hash.
Carries(e, h) ==
    IF "H_RICH" \in DOMAIN e THEN e.H_RICH = h
    ELSE "hash" \in DOMAIN e /\ e.hash = h

CommitmentsIn(items) ==
    {h \in {"h1", "h2"} : \E i \in 1..Len(items) : Carries(items[i], h)}

VerifierOf(e) == IF "user" \in DOMAIN e THEN e.user ELSE "unknown"

\* The distinct verifier identities of the entries carrying commitment h.
VerifiersFor(items, h) ==
    {VerifierOf(items[i]) : i \in {j \in 1..Len(items) : Carries(items[j], h)}}

Range(s) == {s[i] : i \in 1..Len(s)}

LedgerBuilt == outcome.op = "ledger" /\ ledger # <<>>

\* C15: quorum.  In every ledger compute_epochs writes, the count of each
\* epoch is the number of distinct verifier identities among the registry
\* entries of its commitment and the length of its verifiers list, and
\* its status is CONSENSUS_CONFIRMED exactly when count >= min_quorum,
\* PENDING otherwise.
C15_Quorum ==
    [][outcome'.op = "ledger" =>
         \A i \in 1..Len(ledger'[1]) :
            LET ep == ledger'[1][i]
            IN /\ ep.count = Cardinality(VerifiersFor(registry.items, ep.hash))
               /\ ep.count = Len(ep.verifiers)
               /\ ep.status \in {"CONSENSUS_CONFIRMED", "PENDING"}
               /\ ep.status = "CONSENSUS_CONFIRMED" <=> ep.count >= outcome'.arg[1]]_vars

C15_Witness ==
    /\ LedgerBuilt
    /\ outcome.arg = <<min_quorum_default>>
    /\ \E i \in 1..Len(ledger[1]) :
          /\ ledger[1][i].status = "CONSENSUS_CONFIRMED"
          /\ ledger[1][i].count = 3
          /\ Cardinality({j \in 1..Len(registry.items) :
                            Carries(registry.items[j], ledger[1][i].hash)}) = 4

\* C16: grouping.  The ledger has exactly one epoch per distinct
\* commitment present in the registry, and the verifiers of an epoch are
\* the verifiers of exactly the entries carrying its commitment: an entry
\* counts in the epoch of its own commitment and in no other, an entry
\* without commitment in none.
C16_Grouping ==
    [][outcome'.op = "ledger" =>
         LET eps == ledger'[1]
         IN /\ {eps[i].hash : i \in 1..Len(eps)} = CommitmentsIn(registry.items)
            /\ Len(eps) = Cardinality(CommitmentsIn(registry.items))
            /\ \A i \in 1..Len(eps) :
                  Range(eps[i].verifiers) = VerifiersFor(registry.items, eps[i].hash)]_vars

C16_Witness ==
    /\ LedgerBuilt
    /\ Len(ledger[1]) = 2
    /\ \E i \in 1..Len(registry.items) : registry.items[i] = [user |-> "b"]
    /\ \E i \in 1..Len(registry.items) : registry.items[i] = [user |-> "c", hash |-> "h2"]
    /\ \A i \in 1..2 : "b" \notin Range(ledger[1][i].verifiers)
    /\ \E i \in 1..2 : ledger[1][i].hash = "h2" /\ "c" \in Range(ledger[1][i].verifiers)

\* Every entry a registry of the ledger specification can hold.
EntryOrder == EntryUniverse \o <<registry_entry(BundleFileB)>>

\* The entries of a list arranged in one fixed order (that of EntryOrder):
\* every permutation of a list is arranged into the same list.
RECURSIVE Arranged(_, _)
Arranged(items, u) ==
    IF u > Len(EntryOrder) THEN <<>>
    ELSE LET copies == Cardinality({i \in 1..Len(items) : items[i] = EntryOrder[u]})
         IN [i \in 1..copies |-> EntryOrder[u]] \o Arranged(items, u + 1)

Reversed(items) == [i \in 1..Len(items) |-> items[(Len(items) + 1) - i]]

\* C17: ledger ordering.  Every ledger lists the CONSENSUS_CONFIRMED epochs
\* before the PENDING ones, each part in ascending order of commitment,
\* and is equal to the ledger computed from the same registry entries
\* arranged in the fixed order and in reverse order; as every registry
\* list within the bound is checked, all permutations of a registry give
\* the same ledger, order and contents.
C17_LedgerOrdering ==
    [][outcome'.op = "ledger" =>
         LET eps == ledger'[1]
             q == outcome'.arg[1]
         IN /\ \A i \in 1..Len(eps), j \in 1..Len(eps) :
                  i < j => /\ eps[i].status = "PENDING" => eps[j].status = "PENDING"
                           /\ eps[i].status = eps[j].status => StrLess(eps[i].hash, eps[j].hash)
            /\ Len(Arranged(registry.items, 1)) = Len(registry.items)
            /\ eps = compute_epochs(Arranged(registry.items, 1), q)
            /\ eps = compute_epochs(Reversed(registry.items), q)]_vars

C17_Witness ==
    /\ LedgerBuilt
    /\ Len(ledger[1]) = 2
    /\ ledger[1][1].hash = "h2" /\ ledger[1][1].status = "CONSENSUS_CONFIRMED"
    /\ ledger[1][2].hash = "h1" /\ ledger[1][2].status = "PENDING"
    /\ Carries(registry.items[1], "h1")
    /\ registry.items # Arranged(registry.items, 1)

IsPrefix(s, t) == Len(s) <= Len(t) /\ SubSeq(t, 1, Len(s)) = s

\* C18: the registry is append-only.  A registration extends the registry
\* by exactly one entry {H_RICH, H_MASTER, timestamp} of the bundle file,
\* at its end, and every step leaves the entries already in the registry
\* at their positions with their content.
C18_AppendOnly ==
    [][/\ IsPrefix(registry.items, registry'.items)
       /\ (outcome'.op = "register" /\ outcome'.exc = "none") =>
             /\ registry'.exists
             /\ Len(registry'.items) = Len(registry.items) + 1
             /\ registry'.items[Len(registry'.items)] =
                   [H_RICH |-> out_file[1].H_RICH,
                    H_MASTER |-> out_file[1].primary.master,
                    timestamp |-> out_file[1].generated_at]]_vars

C18_Witness ==
    /\ outcome.op = "register"
    /\ Len(registry.items) = 3
    /\ registry.items[1] = [user |-> "a", H_RICH |-> "h2"]
    /\ registry.items[2] = registry.items[3]
    /\ registry.items[3] = [H_RICH |-> "h1", H_MASTER |-> "m1", timestamp |-> "t2"]

\* C20 as claimed: when two concurrent registrations and a concurrent
\* load_registry have ended, none of them has failed, the registry holds
\* the entries it held at the start followed by the entries of both
\* registrations, and the list the reader loaded is a prefix of it.
C20_ConcurrentRegistrations ==
    (\A p \in Procs : pc[p] \in {"done", "failed"}) =>
        /\ \A p \in Procs : pc[p] = "done"
        /\ registry.exists /\ registry.valid
        /\ \E init \in InitialRegistries, p \in Registrars, q \in Registrars :
              /\ p # q
              /\ registry.items = init.items \o <<registry_entry(loaded[p].bundle[1]),
                                                   registry_entry(loaded[q].bundle[1])>>
        /\ IsPrefix(loaded["reader"].data, registry.items)

\* The entries load_registry reads from the registry file.
ListedEntries(reg) ==
    IF reg.exists /\ "object" \notin DOMAIN reg THEN reg.items ELSE <<>>

\* C24: a ledger build is pure aggregation.  It leaves the registry
\* unchanged, and the ledger file then holds exactly the epochs of the
\* current registry: one epoch per commitment present, with the verifiers
\* of that commitment, whatever an earlier build had written; a missing or
\* non-list registry gives an empty ledger.
C24_LedgerRegenerated ==
    [][outcome'.op = "ledger" =>
         /\ registry' = registry
         /\ ledger' # <<>>
         /\ LET eps == ledger'[1]
                items == ListedEntries(registry)
            IN /\ Len(eps) = Cardinality(CommitmentsIn(items))
               /\ {eps[i].hash : i \in 1..Len(eps)} = CommitmentsIn(items)
               /\ \A i \in 1..Len(eps) :
                     /\ eps[i].count = Cardinality(VerifiersFor(items, eps[i].hash))
                     /\ eps[i].status = "CONSENSUS_CONFIRMED" <=>
                           eps[i].count >= outcome'.arg[1]
               /\ (~registry.exists \/ "object" \in DOMAIN registry) => eps = <<>>]_vars

C24_Witness ==
    /\ outcome.op = "ledger"
    /\ outcome.arg = <<2>>
    /\ Len(registry.items) = 3
    /\ registry.items[3] = registry_entry(BundleFileA)
    /\ Len(ledger[1]) = 2
    /\ ledger[1][1].status = "CONSENSUS_CONFIRMED"
    /\ ledger[1][2].hash = "h1"

\* The statuses of a ledger are those a build with quorum q gives.
BuiltWithQuorum(eps, q) ==
    \A i \in 1..Len(eps) : eps[i].status = "CONSENSUS_CONFIRMED" <=> eps[i].count >= q

\* C27: consensus is monotone under registry growth.  When a ledger is
\* rebuilt after the registry grew by appended entries, every commitment of
\* the earlier ledger is in the new one with a verifier count that is not
\* smaller, and, the quorum being the same, a commitment that was
\* CONSENSUS_CONFIRMED is CONSENSUS_CONFIRMED again.
C27_ConsensusMonotone ==
    [][(outcome'.op = "ledger" /\ ledger # <<>>) =>
         \A i \in 1..Len(ledger[1]) :
            \E j \in 1..Len(ledger'[1]) :
               LET old == ledger[1][i]
                   new == ledger'[1][j]
               IN /\ new.hash = old.hash
                  /\ new.count >= old.count
                  /\ \A v \in Range(old.verifiers) : v \in Range(new.verifiers)
                  /\ (BuiltWithQuorum(ledger[1], outcome'.arg[1])
                        /\ old.status = "CONSENSUS_CONFIRMED")
                       => new.status = "CONSENSUS_CONFIRMED"]_vars

C27_Witness ==
    /\ outcome.op = "ledger"
    /\ outcome.arg = <<2>>
    /\ Len(registry.items) = 2
    /\ registry.items[1] = [user |-> "a", H_RICH |-> "h1"]
    /\ registry.items[2] = registry_entry(BundleFileA)
    /\ ledger[1] = <<[epoch |-> today, hash |-> "h1", verifiers |-> <<"a", "unknown">>,
                       count |-> 2, status |-> "CONSENSUS_CONFIRMED"]>>

\* C28: registered entries carry no verifier identity.  The entry a
\* registration appends has no "user" key, and in every ledger built from
\* a registry none of whose entries has one, each epoch has the single
\* verifier "unknown", count 1, and (the quorum being at least 2) status
\* PENDING, however many entries the registry holds.
C28_RegisteredNeverConfirmed ==
    [][/\ (outcome'.op = "register" /\ outcome'.exc = "none") =>
             "user" \notin DOMAIN registry'.items[Len(registry'.items)]
       /\ (/\ outcome'.op = "ledger"
           /\ outcome'.arg[1] >= 2
           /\ \A i \in 1..Len(registry.items) : "user" \notin DOMAIN registry.items[i]) =>
             \A j \in 1..Len(ledger'[1]) :
                /\ ledger'[1][j].verifiers = <<"unknown">>
                /\ ledger'[1][j].count = 1
                /\ ledger'[1][j].status = "PENDING"]_vars

C28_Witness ==
    /\ outcome.op = "ledger"
    /\ outcome.arg = <<2>>
    /\ Len(registry.items) = MaxEntries
    /\ \A i \in 1..Len(registry.items) : registry.items[i] = registry_entry(BundleFileB)
    /\ Len(ledger[1]) = 1
    /\ ledger[1][1].hash = "h1"
    /\ ledger[1][1].count = 1
    /\ ledger[1][1].status = "PENDING"

\* C29: the two consensus checks agree.  For every registry and threshold
\* q, check_consensus(min_count = q) reports consensus confirmed exactly
\* when compute_epochs(entries, min_quorum = q) has at least one
\* CONSENSUS_CONFIRMED epoch.
C29_ConsensusChecksAgree ==
    [][outcome'.op = "consensus" =>
         LET q == outcome'.arg[1].min_count
             epochs == compute_epochs(load_registry(registry), q)
         IN outcome'.arg[1].confirmed <=>
               \E i \in 1..Len(epochs) : epochs[i].status = "CONSENSUS_CONFIRMED"]_vars

\* The bundle file exists, parses and replays to its stored commitments.
Verifies(file) == file # <<>> /\ file[1] \in {PreviousBundle, OtherBundle}

\* C26: only verified bundles are registered.  A run of evaluate_invariant
\* changes the registry only when the bundle file exists and verification
\* reported ok, and then by appending the entry of that bundle; when the
\* file is missing, or verification reports not ok or raises, the run
\* exits with status 1 and the registry is left unchanged.
C26_OnlyVerifiedRegistered ==
    [][outcome'.op = "evaluate" =>
         /\ ~Verifies(out_file) => (registry' = registry /\ outcome'.arg = <<1>>)
         /\ registry' # registry =>
               /\ Verifies(out_file)
               /\ outcome'.arg = <<0>>
               /\ IsPrefix(registry.items, registry'.items)
               /\ Len(registry'.items) = Len(registry.items) + 1
               /\ registry'.items[Len(registry'.items)].H_RICH = out_file[1].H_RICH
         /\ (Verifies(out_file) /\ "object" \notin DOMAIN registry) => registry' # registry]_vars

C26_Witness ==
    /\ outcome.op = "evaluate"
    /\ outcome.arg = <<1>>
    /\ out_file = <<CorruptedBundle>>
    /\ Len(registry.items) = 2
    /\ registry.items[1].H_RICH = PreviousBundle.H_RICH
    /\ registry.items[2].H_RICH = OtherBundle.H_RICH

\* C25: the auxiliary checks run on the chain of the primary run.  For
\* every iterable of stage functions, one-shot ones included, the bundle
\* build_bundle returns is the one whose checks received the full sequence
\* of stage functions the primary run executed.
C25_ChecksReceiveChain ==
    [][(outcome'.op = "build_bundle" /\ outcome'.exc = "none") =>
         \A r \in RunIds :
            (built[r] = <<>> /\ built'[r] # <<>>) =>
               LET b == built'[r][1]
               IN \A k \in NameSet :
                     b.bundle.subproofs[k] =
                        run_subproof(k, b.in, EnvOf(r), b.stages, b.bundle.primary)]_vars

\* C23: no error is silently downgraded outside the audit report.  Every
\* error raised while build_bundle runs reaches the caller: a build_bundle
\* call whose drift check against the previous bundle file raises does not
\* return normally.
C23_ErrorsReachCaller ==
    [][(outcome'.op = "build_bundle"
          /\ \E r \in RunIds :
                /\ built[r] = <<>> /\ built'[r] # <<>>
                /\ drift_check(metrics, out_file, built'[r][1].bundle.H_MASTER).exc # "none")
       => outcome'.exc # "none"]_vars

\* ---------------------------------------------------------------------
\* Properties of the self-audit
\* ---------------------------------------------------------------------

Audited == outcome.op = "audit" /\ report # <<>>

Smaller(a, b) == IF a < b THEN a ELSE b

\* A bundle file that replays to its stored commitments.
Healthy(file) == file = PreviousBundle

\* C21: audit report arithmetic.  For every audit_last_n(n) with n >= 0,
\* checked is the number of bundles discovered (the bundles on disk, at
\* most n of them), verified + len(drift) = checked, and ok is true exactly
\* when verified = checked; with no bundle discovered the report is
\* checked 0, verified 0, no drift, ok.
C21_AuditArithmetic ==
    (outcome.op = "audit" /\ outcome.arg[1] >= 0) =>
        /\ report # <<>>
        /\ LET r == report[1]
               n == outcome.arg[1]
           IN /\ r.checked = Smaller(n, Len(disk))
              /\ r.checked <= n
              /\ r.verified + Len(r.drift) = r.checked
              /\ r.ok <=> (r.verified = r.checked)
              /\ r.checked = 0 => (r.verified = 0 /\ r.drift = <<>> /\ r.ok)

C21_Witness ==
    /\ Audited
    /\ outcome.arg = <<2>>
    /\ Len(disk) = 3
    /\ report[1].checked = 2
    /\ report[1].verified = 1
    /\ ~report[1].ok

\* C22: audit failures are data.  No audit raises; the drift list holds
\* exactly one entry per discovered bundle that does not replay to its
\* stored commitments (verification not ok, or file unreadable), newest
\* first as discovered, naming the bundle with a non-empty reason, and the
\* bundles after a failing one are still audited.
C22_FailuresAreData ==
    (outcome.op = "audit" /\ outcome.arg[1] >= 0) =>
        /\ outcome.exc = "none"
        /\ report # <<>>
        /\ LET r == report[1]
               n == outcome.arg[1]
               idx == 1..Len(disk)
           IN \E D \in SUBSET idx :
                /\ Cardinality(D) = Smaller(n, Len(disk))
                /\ \A d \in D, e \in idx \ D : disk[d].mtime >= disk[e].mtime
                /\ r.verified = Cardinality({d \in D : Healthy(disk[d].file)})
                /\ {r.drift[i].bundle : i \in 1..Len(r.drift)} =
                      {disk[d].path : d \in {x \in D : ~Healthy(disk[x].file)}}
                /\ Len(r.drift) = Cardinality({d \in D : ~Healthy(disk[d].file)})
                /\ \A i \in 1..Len(r.drift) :
                      /\ r.drift[i].reason # None /\ r.drift[i].reason # ""
                      /\ \A j \in 1..Len(r.drift) :
                            i < j => \E a \in D, b \in D :
                                       /\ disk[a].path = r.drift[i].bundle
                                       /\ disk[b].path = r.drift[j].bundle
                                       /\ disk[a].mtime >= disk[b].mtime

C22_Witness ==
    /\ Audited
    /\ outcome.arg = <<3>>
    /\ Len(disk) = 3
    /\ disk[1].mtime = 1 /\ disk[2].mtime = 2 /\ disk[3].mtime = 2
    /\ disk[1].file = PreviousBundle
    /\ disk[2].file = MalformedFile
    /\ disk[3].file = CorruptedBundle
    /\ report[1].checked = 3 /\ report[1].verified = 1
    /\ report[1].drift = <<[bundle |-> "b.json", reason |-> "JSONDecodeError"],
                            [bundle |-> "c.json", reason |-> "verify_bundle_failed"]>>

\* ---------------------------------------------------------------------
\* Properties of two independent executions
\* ---------------------------------------------------------------------

Built(r) == built[r] # <<>>
InOf(r) == built[r][1].in
StagesOf(r) == built[r][1].stages
BundleOf(r) == built[r][1].bundle
PrimaryOf(r) == built[r][1].bundle.primary

\* The step records exported by the bundles built so far.
ExportedRecords ==
    UNION {{PrimaryOf(r).steps[i] : i \in 1..Len(PrimaryOf(r).steps)} :
             r \in {q \in RunIds : Built(q)}}

Count(x, s) == Cardinality({i \in 1..Len(s) : s[i] = x})

\* s and t hold the same elements the same number of times, in another order.
Reordering(s, t) ==
    /\ Len(s) = Len(t)
    /\ s # t
    /\ \A i \in 1..Len(s) : Count(s[i], s) = Count(s[i], t)

C19_BundleHasRegistryEntry ==
    [][(outcome'.op = "build_bundle" /\ outcome'.exc = "none")
         => \E r \in RunIds :
              /\ built[r] = <<>> /\ built'[r] # <<>>
              /\ registry'.exists
              /\ Len(registry'.items) = Len(registry.items) + 1
              /\ registry'.items[Len(registry'.items)].H_RICH = built'[r][1].bundle.H_RICH
              /\ registry'.items[Len(registry'.items)].H_MASTER = built'[r][1].bundle.H_MASTER]_vars

\* C13: H_RICH depends only on the map from check name to result hash.
\* Whatever order the eight checks complete and are inserted in, the
\* H_RICH computed from the dict is the H_RICH build_bundle returns for
\* the same inputs, and the collected hashes are those of the bundle.
C13_RichOrderIndependent ==
    rich # <<>> =>
        /\ collected.map = BundleOf("r1").subproof_hashes
        /\ rich[1] = BundleOf("r1").H_RICH
        /\ rich[1] = <<"sha256", [i \in 1..Len(SubproofNames) |->
                                    collected.map[sorted(NameSet)[i]]]>>

C13_Witness ==
    /\ rich # <<>>
    /\ collected.order # SubproofNames
    /\ collected.order # sorted(NameSet)
    /\ collected.order[1] = "TRP"

LogicReplacedAt(r1, r2, k) ==
    /\ Len(StagesOf(r1)) = Len(StagesOf(r2))
    /\ k \in 1..Len(StagesOf(r1))
    /\ \A i \in 1..Len(StagesOf(r1)) : (i # k) = (StagesOf(r1)[i] = StagesOf(r2)[i])
    /\ StagesOf(r1)[k].name = StagesOf(r2)[k].name
    /\ PrimaryOf(r1).steps[k].input = PrimaryOf(r2).steps[k].input
    /\ PrimaryOf(r1).steps[k].output # PrimaryOf(r2).steps[k].output

\* C2 as claimed: replacing one step function, at any position of the
\* chain, by a function of the same name that returns a different output
\* for the same input yields a different master commitment.
C2_LogicTamperEvident ==
    \A r1, r2 \in RunIds : \A k \in 1..MaxSteps :
        (Built(r1) /\ Built(r2) /\ InOf(r1) = InOf(r2) /\ LogicReplacedAt(r1, r2, k))
          => PrimaryOf(r1).master # PrimaryOf(r2).master

SameIdentity(a, b) ==
    /\ a.fn = b.fn /\ a.input = b.input /\ a.config = b.config /\ a.version = b.version

\* C3: a step's fingerprint is the content hash of exactly {function
\* identifier, input state, configuration, version}: records that agree on
\* the four have the same fingerprint whatever their outputs, and records
\* that differ in one of the four have different fingerprints.
C3_FingerprintIdentity ==
    \A a, b \in ExportedRecords :
        /\ a.fingerprint = content_hash([fn |-> a.fn, input |-> a.input,
                                         config |-> a.config, version |-> a.version])
        /\ SameIdentity(a, b) <=> (a.fingerprint = b.fingerprint)

C3_Witness ==
    /\ \E a, b \in ExportedRecords :
          SameIdentity(a, b) /\ a.output # b.output /\ a.fingerprint = b.fingerprint
    /\ \E a, b \in ExportedRecords :
          /\ a.fn = b.fn /\ a.input = b.input /\ a.config = b.config
          /\ a.version # b.version /\ a.fingerprint # b.fingerprint

\* C4: the master commitment is the content hash of "P2|" followed by the
\* step fingerprints in call order joined by "|", and two runs whose
\* fingerprint sequences are different orderings of the same fingerprints
\* have different master commitments.
C4_MasterOverOrderedFingerprints ==
    /\ \A r \in RunIds : Built(r) =>
          /\ Len(PrimaryOf(r).stage_hashes) = Len(StagesOf(r))
          /\ \A i \in 1..Len(StagesOf(r)) :
                /\ PrimaryOf(r).steps[i].fn = StagesOf(r)[i].name
                /\ PrimaryOf(r).stage_hashes[i] = PrimaryOf(r).steps[i].fingerprint
          /\ PrimaryOf(r).master = content_hash(P2Concat(PrimaryOf(r).stage_hashes))
    /\ \A r1, r2 \in RunIds :
          (Built(r1) /\ Built(r2)
             /\ Reordering(PrimaryOf(r1).stage_hashes, PrimaryOf(r2).stage_hashes))
            => PrimaryOf(r1).master # PrimaryOf(r2).master

C4_Witness ==
    /\ Built("r1") /\ Built("r2")
    /\ Reordering(PrimaryOf("r1").stage_hashes, PrimaryOf("r2").stage_hashes)
    /\ PrimaryOf("r1").master # PrimaryOf("r2").master

====
